---- MODULE Spec2Model ----
(***************************************************************************)
(* The request/response bridge of ad-mcp-bridge-server: the process-wide   *)
(* OdooClient (odoo_client.py), the tools and resources that call it       *)
(* (server.py) and the settings they read (config.py).                     *)
(*                                                                         *)
(* JSON and Python values are tagged records, so that the type tests of    *)
(* the code (isinstance, truthiness, "key in mapping") are computed and    *)
(* not assumed.  A Python string built by an f-string is a sequence of     *)
(* parts: literal parts and parts that stand for str(value) of a value     *)
(* that is not a string.                                                   *)
(*                                                                         *)
(* asyncio runs a handler without interruption between two awaits, so an   *)
(* operation is two steps: from its entry to the await of the HTTP         *)
(* exchange, and from the end of the exchange to its return.  Operations    *)
(* share nothing but the client, which none of them changes once it is     *)
(* created, so the model follows one operation at a time.  SpecClose adds  *)
(* a caller of close_client, which does change the client, in two steps    *)
(* around its await.                                                       *)
(***************************************************************************)
EXTENDS Integers, Sequences, FiniteSets, TLC

VARIABLES
    settings,   \* config.settings: the values loaded at import
    client,     \* odoo_client._client: the process-wide client, or NoClient
    call,       \* the operation being served: its position, arguments, request, reply, outcome
    mainpc,     \* server.main: "running" inside mcp.run, "returned" or "raised" after it
    closepc     \* a caller of close_client: "idle", or "closing" while it awaits close()

vars == <<settings, client, call, mainpc, closepc>>

----------------------------------------------------------------------------
(* Values *)

JNull == [t |-> "null"]
JStr(s) == [t |-> "str", s |-> s]
JInt(i) == [t |-> "int", i |-> i]
JBool(b) == [t |-> "bool", b |-> b]
JDict(m) == [t |-> "dict", m |-> m]
JList(l) == [t |-> "list", l |-> l]

NoKeys == <<>>

\* bool(v) of a Python value
Truthy(v) ==
    CASE v.t = "null" -> FALSE
      [] v.t = "bool" -> v.b
      [] v.t = "str" -> v.s # ""
      [] v.t = "int" -> v.i # 0
      [] v.t = "dict" -> DOMAIN v.m # {}
      [] v.t = "list" -> Len(v.l) > 0

\* a or b
PyOr(a, b) == IF Truthy(a) THEN a ELSE b

\* mapping.get(k, d) on the keys of a mapping
Get(m, k, d) == IF k \in DOMAIN m THEN m[k] ELSE d

\* mapping[k] = v
Put(m, k, v) == [x \in DOMAIN m \cup {k} |-> IF x = k THEN v ELSE m[x]]

\* Parts of a built string
Lit(s) == [lit |-> s]
Repr(v) == [str |-> v]

\* str(v): a string is itself, any other value is its printed form
PyStr(v) == IF v.t = "str" THEN <<Lit(v.s)>> ELSE <<Repr(v)>>

----------------------------------------------------------------------------
(* config.py *)

MaxRecordsCap == 2
MaxLimit == 3
DefaultTimeout == 30
DefaultLimit == 80

ApiKeys == {JNull, JStr(""), JStr("key-1")}
Users == {JNull, JStr("admin")}
Passwords == {JNull, JStr("secret")}
TimeoutChoices == {5, DefaultTimeout}

\* Settings(): each field is what the environment gave it; max_records is a
\* page size, taken to be at least 1
Settings ==
    [api_key : ApiKeys, user : Users, password : Passwords,
     max_records : 1..MaxRecordsCap, timeout : TimeoutChoices]

----------------------------------------------------------------------------
(* odoo_client.py: OdooClient *)

NoClient == [t |-> "none"]

\* OdooClient.__init__: an argument that is falsy falls back to the setting
OdooClient(api_key, user, password, timeout) ==
    [t |-> "client",
     api_key |-> PyOr(api_key, settings.api_key),
     user |-> PyOr(user, settings.user),
     password |-> PyOr(password, settings.password),
     timeout |-> IF timeout # 0 THEN timeout ELSE settings.timeout,
     closed |-> FALSE]

\* get_client: the global, created with OdooClient() when it is None
get_client ==
    IF client = NoClient
    THEN OdooClient(JNull, JNull, JNull, DefaultTimeout)
    ELSE client

\* The same with both branches taken, as two ifs in place of if/elif would
AuthParamsBoth(self, params) ==
    LET p == IF Truthy(self.api_key)
             THEN Put(params, "api_key", self.api_key) ELSE params
    IN  IF Truthy(self.user) /\ Truthy(self.password)
        THEN Put(Put(p, "user", self.user), "password", self.password)
        ELSE p

\* The same with the caller's value kept, as params.setdefault would
AuthParamsCallerWins(self, params) ==
    LET auth == IF Truthy(self.api_key) THEN [api_key |-> self.api_key]
                ELSE IF Truthy(self.user) /\ Truthy(self.password)
                     THEN [user |-> self.user, password |-> self.password]
                     ELSE NoKeys
    IN  [k \in DOMAIN params \cup DOMAIN auth |->
            IF k \in DOMAIN params THEN params[k] ELSE auth[k]]

\* _request, lines 36-41: the auth fields are assigned into the caller's params
AuthParams(self, params) ==
    IF Truthy(self.api_key)
    THEN Put(params, "api_key", self.api_key)
    ELSE IF Truthy(self.user) /\ Truthy(self.password)
         THEN Put(Put(params, "user", self.user), "password", self.password)
         ELSE params

\* _request, lines 34-55: what is handed to AsyncClient.post
BuildRequest(self, endpoint, params) ==
    [endpoint |-> endpoint,
     timeout |-> self.timeout,
     payload |-> [jsonrpc |-> "2.0", method |-> "call",
                  params |-> AuthParams(self, params), id |-> 1]]

Return(v) == [kind |-> "return", value |-> v]
Raise(exc, msg) == [kind |-> "raise", exc |-> exc, msg |-> msg]

\* _request, lines 59-64: msg, the message of a top-level error, as the f-string
\* of line 65 prints it
ErrorMessage(error) ==
    IF error.t = "dict"
    THEN LET data == Get(error.m, "data", JDict(NoKeys))
         IN  IF "message" \in DOMAIN data.m
             THEN PyStr(data.m["message"])
             ELSE PyStr(error)
    ELSE PyStr(error)

\* What AsyncClient.post can give back
RequestError(detail) == [kind |-> "request_error", detail |-> detail]
Response(status, text, decodes, json) ==
    [kind |-> "response", status |-> status, text |-> text,
     decodes |-> decodes, json |-> json]

\* response.raise_for_status()
IsErrorStatus(status) == status >= 400

\* The same with the result looked at before the error key
RequestOutcomeResultFirst(x) ==
    IF x.kind = "request_error"
    THEN Raise("OdooError", <<Lit("Connection error: "), Lit(x.detail)>>)
    ELSE IF IsErrorStatus(x.status)
    THEN Raise("OdooError", <<Lit("HTTP error "), Repr(JInt(x.status)), Lit(": "), Lit(x.text)>>)
    ELSE IF ~x.decodes
    THEN Raise("JSONDecodeError", <<Lit("Expecting value")>>)
    ELSE IF "result" \in DOMAIN x.json.m
    THEN Return(x.json.m["result"])
    ELSE IF "error" \in DOMAIN x.json.m
    THEN Raise("OdooError", <<Lit("Odoo error: ")>> \o ErrorMessage(x.json.m["error"]))
    ELSE Return(JDict(NoKeys))

\* _request, lines 50-72, from the end of the exchange: the value returned or
\* the exception raised.  response.json() raises a ValueError that no except
\* clause of _request names.
RequestOutcome(x) ==
    IF x.kind = "request_error"
    THEN Raise("OdooError", <<Lit("Connection error: "), Lit(x.detail)>>)
    ELSE IF IsErrorStatus(x.status)
    THEN Raise("OdooError", <<Lit("HTTP error "), Repr(JInt(x.status)), Lit(": "), Lit(x.text)>>)
    ELSE IF ~x.decodes
    THEN Raise("JSONDecodeError", <<Lit("Expecting value")>>)
    ELSE IF "error" \in DOMAIN x.json.m
    THEN Raise("OdooError", <<Lit("Odoo error: ")>> \o ErrorMessage(x.json.m["error"]))
    ELSE Return(Get(x.json.m, "result", JDict(NoKeys)))

\* health_check, line 80: the payload an exception is turned into
HealthError(msg) == JDict([status |-> JStr("error"), message |-> JStr(msg)])

\* The same with only the transport's errors caught, as "except
\* httpx.RequestError" would
HealthOutcomeRequestErrorOnly(x) ==
    IF x.kind = "request_error" THEN Return(HealthError(x.detail))
    ELSE IF ~x.decodes THEN Raise("JSONDecodeError", <<Lit("Expecting value")>>)
    ELSE Return(x.json)

\* health_check, lines 76-80, from the end of the GET: no status test, and
\* every Exception becomes the error payload
HealthOutcome(x) ==
    IF x.kind = "request_error" THEN Return(HealthError(x.detail))
    ELSE IF ~x.decodes THEN Return(HealthError("Expecting value"))
    ELSE Return(x.json)

\* The check every method but get_server_info makes on what _request returned
SoftError(result) == Truthy(Get(result.m, "error", JNull))

SoftErrorMessage(result) == PyStr(Get(result.m, "message", JStr("Unknown error")))

\* result.get("data", {}).get(key, default)
Project(result, key, default) ==
    Get(Get(result.m, "data", JDict(NoKeys)).m, key, default)

\* The data key each method projects, and its default
SubKey(method) ==
    CASE method = "list_models" -> "models"
      [] method = "get_fields" -> "fields"
      [] method = "search" -> "records"
      [] method = "read" -> "record"
      [] method = "count" -> "count"
      [] method = "create" -> "id"
      [] method = "execute" -> "result"

Default(method) ==
    CASE method \in {"list_models", "get_fields", "search"} -> JList(<<>>)
      [] method = "read" -> JDict(NoKeys)
      [] method = "count" -> JInt(0)
      [] method \in {"create", "execute"} -> JNull

\* The endpoint token each method posts to
Endpoint(method) ==
    CASE method = "get_server_info" -> "info"
      [] method = "list_models" -> "models"
      [] method = "get_fields" -> "fields"
      [] method \in {"search", "read", "count", "create", "write", "unlink", "execute"} -> method

\* The same with the payload indexed, result["data"][key], in place of .get
MethodOutcomeStrict(method, r) ==
    IF r.kind = "raise" THEN r
    ELSE IF method = "get_server_info" THEN r
    ELSE IF SoftError(r.value)
    THEN Raise("OdooError", SoftErrorMessage(r.value))
    ELSE IF method \in {"write", "unlink"} THEN Return(JBool(TRUE))
    ELSE IF "data" \notin DOMAIN r.value.m
    THEN Raise("KeyError", <<Lit("'data'")>>)
    ELSE IF SubKey(method) \notin DOMAIN r.value.m["data"].m
    THEN Raise("KeyError", <<Lit(SubKey(method))>>)
    ELSE Return(r.value.m["data"].m[SubKey(method)])

\* OdooClient.<method>, from the return of _request to its own return
MethodOutcome(method, r) ==
    IF r.kind = "raise" THEN r
    ELSE IF method = "get_server_info" THEN r
    ELSE IF SoftError(r.value)
    THEN Raise("OdooError", SoftErrorMessage(r.value))
    ELSE IF method \in {"write", "unlink"} THEN Return(JBool(TRUE))
    ELSE Return(Project(r.value, SubKey(method), Default(method)))

\* The keyword arguments each method hands to _request
MethodParams(method, a) ==
    CASE method \in {"get_server_info", "list_models"} -> NoKeys
      [] method = "get_fields" -> [model |-> a.model]
      [] method = "search" ->
            [model |-> a.model, domain |-> PyOr(a.domain, JList(<<>>)),
             fields |-> a.fields, limit |-> a.limit, offset |-> a.offset,
             order |-> a.order]
      [] method = "read" ->
            [model |-> a.model, record_id |-> a.record_id, fields |-> a.fields]
      [] method = "count" ->
            [model |-> a.model, domain |-> PyOr(a.domain, JList(<<>>))]
      [] method = "create" -> [model |-> a.model, values |-> a.values]
      [] method = "write" ->
            [model |-> a.model, record_id |-> a.record_id, values |-> a.values]
      [] method = "unlink" -> [model |-> a.model, record_id |-> a.record_id]
      [] method = "execute" ->
            [model |-> a.model, method |-> a.method, record_ids |-> a.record_ids,
             args |-> a.args, kwargs_data |-> a.kwargs]

----------------------------------------------------------------------------
(* server.py: output formatting *)

NL == Lit("\n")

\* The order in which a mapping's keys are iterated: the order of the reply
\* document, taken to list the fields in this order
KeyOrder ==
    <<"id", "display_name", "name", "__last_update", "email", "active",
      "partner_id", "tag_ids", "child_ids", "meta">>

Keys(m) == SelectSeq(KeyOrder, LAMBDA k : k \in DOMAIN m)

RECURSIVE Concat(_)
\* "".join(texts)
Concat(texts) ==
    IF texts = <<>> THEN <<>> ELSE Head(texts) \o Concat(Tail(texts))

RECURSIVE Join(_, _)
\* sep.join(texts)
Join(sep, texts) ==
    IF texts = <<>> THEN <<>>
    ELSE IF Len(texts) = 1 THEN texts[1]
    ELSE texts[1] \o <<sep>> \o Join(sep, Tail(texts))

Map(f(_), seq) == [i \in 1..Len(seq) |-> f(seq[i])]

Min(a, b) == IF a <= b THEN a ELSE b

\* value is None or value == '' or value is False
Omitted(v) ==
    \/ v.t = "null"
    \/ v.t = "str" /\ v.s = ""
    \/ v.t = "bool" /\ ~v.b

\* isinstance(value, list) and len(value) == 2 and isinstance(value[0], int);
\* a Python bool is an int
IsMany2one(v) == v.t = "list" /\ Len(v.l) = 2 /\ v.l[1].t \in {"int", "bool"}

\* f"{value[1]} (ID: {value[0]})"
Many2oneText(v) == PyStr(v.l[2]) \o <<Lit(" (ID: ")>> \o PyStr(v.l[1]) \o <<Lit(")")>>

\* f"- **{key}**: {value}"
FieldLine(key, text) == <<Lit("- **"), Lit(key), Lit("**: ")>> \o text

\* record.get('display_name') or record.get('name') or f"ID {rec_id}"
RecordName(rec) ==
    LET rec_id == Get(rec, "id", JStr("?"))
        dn == Get(rec, "display_name", JNull)
        nm == Get(rec, "name", JNull)
    IN  IF Truthy(dn) THEN PyStr(dn)
        ELSE IF Truthy(nm) THEN PyStr(nm)
        ELSE <<Lit("ID ")>> \o PyStr(rec_id)

\* format_record: the keys that reach the type dispatch, by the group they land in
ShownKeys(rec) ==
    SelectSeq(Keys(rec), LAMBDA k :
        k \notin {"id", "display_name", "__last_update"} /\ ~Omitted(rec[k]))

BasicKeys(rec) ==
    SelectSeq(ShownKeys(rec), LAMBDA k : rec[k].t \in {"str", "int", "bool"})

RelationKeys(rec) == SelectSeq(ShownKeys(rec), LAMBDA k : IsMany2one(rec[k]))

OtherKeys(rec) ==
    SelectSeq(ShownKeys(rec), LAMBDA k :
        \/ rec[k].t = "list" /\ ~IsMany2one(rec[k]) /\ Truthy(rec[k])
        \/ rec[k].t = "dict")

\* f"{len(value)} items: {value[:5]}{'...' if len(value) > 5 else ''}"
CollectionText(v) ==
    <<Repr(JInt(Len(v.l))), Lit(" items: "),
      Repr(JList(SubSeq(v.l, 1, Min(5, Len(v.l)))))>>
    \o (IF Len(v.l) > 5 THEN <<Lit("...")>> ELSE <<>>)

OtherText(v) == IF v.t = "list" THEN CollectionText(v) ELSE PyStr(v)

\* format_record: the lines, before they are joined
RecordLines(model, rec) ==
    LET rec_id == Get(rec, "id", JStr("?"))
        head == <<Lit("# "), Lit(model), Lit(": ")>> \o RecordName(rec)
                \o <<Lit(" (ID: ")>> \o PyStr(rec_id) \o <<Lit(")"), NL>>
        basic == Map(LAMBDA k : FieldLine(k, PyStr(rec[k])), BasicKeys(rec))
        rel == Map(LAMBDA k : FieldLine(k, Many2oneText(rec[k])), RelationKeys(rec))
        oth == Map(LAMBDA k : FieldLine(k, OtherText(rec[k])), OtherKeys(rec))
    IN  <<head>>
        \o (IF basic # <<>> THEN <<<<Lit("## Basic Information")>>>> \o basic ELSE <<>>)
        \o (IF rel # <<>> THEN <<<<Lit("\n## Related Records")>>>> \o rel ELSE <<>>)
        \o (IF oth # <<>> THEN <<<<Lit("\n## Other Data")>>>> \o oth ELSE <<>>)

format_record(model, rec) == Join(NL, RecordLines(model, rec))

\* format_records: the value of one field as it is printed
ListedText(v) ==
    IF IsMany2one(v) THEN Many2oneText(v)
    ELSE IF v.t = "list" THEN Join(Lit(", "), Map(PyStr, v.l))
    ELSE PyStr(v)

ListedKeys(rec) ==
    SelectSeq(Keys(rec), LAMBDA k :
        k \notin {"id", "display_name", "name", "__last_update"} /\ ~Omitted(rec[k]))

\* format_records: the lines of one record of the list
ListedLines(rec) ==
    LET rec_id == Get(rec, "id", JStr("?"))
    IN  <<(<<Lit("## ")>> \o RecordName(rec) \o <<Lit(" (ID: ")>> \o PyStr(rec_id)
           \o <<Lit(")")>>)>>
        \o Map(LAMBDA k : FieldLine(k, ListedText(rec[k])), ListedKeys(rec))
        \o << <<>> >>

\* format_records: the lines, before they are joined
RecordsLines(model, records) ==
    IF records = <<>>
    THEN << <<Lit("No records found in "), Lit(model), Lit(".")>> >>
    ELSE << <<Lit("# Found "), Repr(JInt(Len(records))), Lit(" records in "),
              Lit(model), NL>> >>
         \o Concat(Map(LAMBDA r : ListedLines(r.m), records))

format_records(model, records) == Join(NL, RecordsLines(model, records))

----------------------------------------------------------------------------
(* server.py: resources and tools, from the return of the client method *)
(* The two emoji that open the write tools' messages are written [ok] and [x]. *)

\* json.dumps(value, ...)
Dumps(v) == <<[json |-> v]>>

\* str.title()
Title(v) == <<[title |-> v]>>

\* A handler's "except OdooError as e: return f'<prefix>{str(e)}'": any other
\* exception leaves the handler
ExceptOdooError(r, prefix) ==
    IF r.exc = "OdooError" THEN Return(prefix \o r.msg) ELSE r

resource_models_done(a, r) ==
    IF r.kind = "raise" THEN r ELSE Return(Dumps(r.value))

resource_model_fields_done(a, r) ==
    IF r.kind = "raise" THEN r ELSE Return(Dumps(r.value))

resource_record_done(a, r) ==
    IF r.kind = "raise" THEN r ELSE Return(format_record(a.model.s, r.value.m))

resource_count_done(a, r) ==
    IF r.kind = "raise" THEN r
    ELSE Return(Dumps(JDict([model |-> a.model, count |-> r.value])))

search_records_done(a, r) ==
    IF r.kind = "raise"
    THEN IF r.exc = "OdooError"
         THEN Return(<<Lit("Error searching "), Lit(a.model.s), Lit(": ")>> \o r.msg)
         ELSE Return(<<Lit("Unexpected error: ")>> \o r.msg)
    ELSE IF ~Truthy(r.value)
    THEN Return(<<Lit("No records found in "), Lit(a.model.s),
                  Lit(" matching the criteria.")>>)
    ELSE Return(format_records(a.model.s, r.value.l))

get_record_done(a, r) ==
    IF r.kind = "raise"
    THEN ExceptOdooError(r, <<Lit("Error reading "), Lit(a.model.s), Lit(" record ")>>
                            \o PyStr(a.record_id) \o <<Lit(": ")>>)
    ELSE IF ~Truthy(r.value)
    THEN Return(<<Lit("Record ")>> \o PyStr(a.record_id)
                \o <<Lit(" not found in "), Lit(a.model.s), Lit(".")>>)
    ELSE Return(format_record(a.model.s, r.value.m))

count_records_done(a, r) ==
    IF r.kind = "raise"
    THEN ExceptOdooError(r, <<Lit("Error counting "), Lit(a.model.s), Lit(": ")>>)
    ELSE Return(<<Lit("Found ")>> \o PyStr(r.value) \o <<Lit(" records in "), Lit(a.model.s)>>
                \o (IF Truthy(a.domain)
                    THEN <<Lit(" matching ")>> \o PyStr(a.domain) ELSE <<>>)
                \o <<Lit(".")>>)

\* list_models: the permissions of one model, joined
PermText(m) ==
    LET perms == (IF Truthy(Get(m, "can_read", JNull)) THEN << <<Lit("read")>> >> ELSE <<>>)
              \o (IF Truthy(Get(m, "can_create", JNull)) THEN << <<Lit("create")>> >> ELSE <<>>)
              \o (IF Truthy(Get(m, "can_write", JNull)) THEN << <<Lit("update")>> >> ELSE <<>>)
              \o (IF Truthy(Get(m, "can_delete", JNull)) THEN << <<Lit("delete")>> >> ELSE <<>>)
    IN  IF perms # <<>> THEN Join(Lit(", "), perms) ELSE <<Lit("no permissions")>>

ModelLine(m) ==
    <<Lit("- **")>> \o PyStr(m["model"]) \o <<Lit("** (")>>
    \o PyStr(Get(m, "name", JStr("Unknown"))) \o <<Lit("): ")>> \o PermText(m)

list_models_done(a, r) ==
    IF r.kind = "raise"
    THEN ExceptOdooError(r, <<Lit("Error listing models: ")>>)
    ELSE IF ~Truthy(r.value)
    THEN Return(<<Lit("No models are currently enabled for MCP access.")>>)
    ELSE IF \E i \in 1..Len(r.value.l) : "model" \notin DOMAIN r.value.l[i].m
    THEN Raise("KeyError", <<Lit("'model'")>>)
    ELSE Return(Join(NL, << <<Lit("# Available Models"), NL>> >>
                         \o Map(LAMBDA m : ModelLine(m.m), r.value.l)))

\* The strings that get_model_fields sorts, in the order sorted() puts them
SortedStrings == <<"char", "email", "many2one", "name", "partner_id", "unknown">>

\* sorted(flist, key=lambda x: x['name']): a stable sort
RECURSIVE SortByName(_, _)
SortByName(flist, names) ==
    IF names = <<>> THEN <<>>
    ELSE SelectSeq(flist, LAMBDA f : f.m["name"] = JStr(Head(names)))
         \o SortByName(flist, Tail(names))

FieldDefLine(f) ==
    <<Lit("- **")>> \o PyStr(f["name"]) \o <<Lit("**: ")>>
    \o PyStr(Get(f, "label", JStr("")))
    \o (IF Truthy(Get(f, "required", JNull)) THEN <<Lit(" (required)")>> ELSE <<>>)
    \o (IF Truthy(Get(f, "readonly", JNull)) THEN <<Lit(" [readonly]")>> ELSE <<>>)

FieldType(f) == Get(f, "type", JStr("unknown"))

\* get_model_fields: the section of one type
TypeSection(ftype, fields) ==
    << (<<Lit("\n## ")>> \o Title(ftype) \o <<Lit(" Fields")>>) >>
    \o Map(LAMBDA f : FieldDefLine(f.m),
           SortByName(SelectSeq(fields, LAMBDA f : FieldType(f.m) = JStr(ftype)),
                      SortedStrings))

get_model_fields_done(a, r) ==
    IF r.kind = "raise"
    THEN ExceptOdooError(r, <<Lit("Error getting fields for "), Lit(a.model.s), Lit(": ")>>)
    ELSE LET fields ==
                 IF Truthy(a.field_types)
                 THEN SelectSeq(r.value.l, LAMBDA f :
                          \E i \in 1..Len(a.field_types.l) :
                              a.field_types.l[i] = Get(f.m, "type", JNull))
                 ELSE r.value.l
             types == SelectSeq(SortedStrings, LAMBDA t :
                          \E i \in 1..Len(fields) : FieldType(fields[i].m) = JStr(t))
         IN  IF fields = <<>>
             THEN Return(<<Lit("No fields found for "), Lit(a.model.s), Lit(".")>>)
             ELSE IF \E i \in 1..Len(fields) : "name" \notin DOMAIN fields[i].m
             THEN Raise("KeyError", <<Lit("'name'")>>)
             ELSE Return(Join(NL, << <<Lit("# Fields for "), Lit(a.model.s), NL>> >>
                      \o Concat(Map(LAMBDA t : TypeSection(t, fields), types))))

create_record_done(a, r) ==
    IF r.kind = "raise"
    THEN ExceptOdooError(r, <<Lit("[x] Error creating "), Lit(a.model.s), Lit(": ")>>)
    ELSE Return(<<Lit("[ok] Successfully created "), Lit(a.model.s),
                  Lit(" record with ID ")>> \o PyStr(r.value) \o <<Lit(".")>>)

update_record_done(a, r) ==
    IF r.kind = "raise"
    THEN ExceptOdooError(r, <<Lit("[x] Error updating "), Lit(a.model.s), Lit(" record ")>>
                            \o PyStr(a.record_id) \o <<Lit(": ")>>)
    ELSE Return(<<Lit("[ok] Successfully updated "), Lit(a.model.s), Lit(" record ")>>
                \o PyStr(a.record_id) \o <<Lit(". Fields: ")>>
                \o Join(Lit(", "), Map(LAMBDA k : <<Lit(k)>>, Keys(a.values.m))))

delete_record_done(a, r) ==
    IF r.kind = "raise"
    THEN ExceptOdooError(r, <<Lit("[x] Error deleting "), Lit(a.model.s), Lit(" record ")>>
                            \o PyStr(a.record_id) \o <<Lit(": ")>>)
    ELSE Return(<<Lit("[ok] Successfully deleted "), Lit(a.model.s), Lit(" record ")>>
                \o PyStr(a.record_id) \o <<Lit(".")>>)

execute_method_done(a, r) ==
    IF r.kind = "raise"
    THEN ExceptOdooError(r, <<Lit("[x] Error executing "), Lit(a.method.s), Lit(" on "),
                              Lit(a.model.s), Lit(": ")>>)
    ELSE IF r.value = JNull
    THEN Return(<<Lit("[ok] Method "), Lit(a.method.s),
                  Lit(" executed successfully on "), Lit(a.model.s), Lit(".")>>)
    ELSE Return(<<Lit("[ok] Method "), Lit(a.method.s), Lit(" result: ")>>
                \o Dumps(r.value))

get_record_name_done(a, r) ==
    IF r.kind = "raise"
    THEN ExceptOdooError(r, <<Lit("Record not found: ")>>)
    ELSE IF "display_name" \in DOMAIN r.value.m
    THEN Return(PyStr(r.value.m["display_name"]))
    ELSE Return(<<Lit(a.model.s), Lit(",")>> \o PyStr(a.record_id))

search_and_read_one_done(a, r) ==
    IF r.kind = "raise"
    THEN ExceptOdooError(r, <<Lit("Error: ")>>)
    ELSE IF ~Truthy(r.value)
    THEN Return(<<Lit("No record found in "), Lit(a.model.s), Lit(" matching ")>>
                \o PyStr(a.domain) \o <<Lit(".")>>)
    ELSE Return(format_record(a.model.s, r.value.l[1].m))

\* A handler from the return of its client method to its own return
ToolOutcome(tool, a, r) ==
    CASE tool = "resource_models" -> resource_models_done(a, r)
      [] tool = "resource_model_fields" -> resource_model_fields_done(a, r)
      [] tool = "resource_record" -> resource_record_done(a, r)
      [] tool = "resource_count" -> resource_count_done(a, r)
      [] tool = "search_records" -> search_records_done(a, r)
      [] tool = "get_record" -> get_record_done(a, r)
      [] tool = "count_records" -> count_records_done(a, r)
      [] tool = "list_models" -> list_models_done(a, r)
      [] tool = "get_model_fields" -> get_model_fields_done(a, r)
      [] tool = "create_record" -> create_record_done(a, r)
      [] tool = "update_record" -> update_record_done(a, r)
      [] tool = "delete_record" -> delete_record_done(a, r)
      [] tool = "execute_method" -> execute_method_done(a, r)
      [] tool = "get_record_name" -> get_record_name_done(a, r)
      [] tool = "search_and_read_one" -> search_and_read_one_done(a, r)
      [] OTHER -> r

----------------------------------------------------------------------------
(* The arguments callers pass and the replies the backend gives *)

Nil == [t |-> "nil"]

ModelArg == JStr("res.partner")
Limits == (0..MaxLimit) \cup {DefaultLimit}
Domains == {JNull, JList(<<JList(<<JStr("is_company"), JStr("="), JBool(TRUE)>>)>>)}
ValuesArg == JDict([name |-> JStr("Acme"), email |-> JStr("a@acme.test")])
FieldTypeArgs == {JNull, JList(<<JStr("char")>>)}
RecordIdTexts == {"5", "abc"}

\* int(record_id) of resource_record: the texts that are a number
IsIntText(s) == s \in {"5"}
IntOf(s) == CASE s = "5" -> 5

\* Arguments a caller of _request can forge, next to honest ones
ForgedParams ==
    {[model |-> ModelArg],
     [model |-> ModelArg, api_key |-> JStr("stolen")],
     [model |-> ModelArg, user |-> JStr("root"), password |-> JStr("guess")],
     [model |-> ModelArg, api_key |-> JStr("stolen"), user |-> JStr("root"),
      password |-> JStr("guess")]}

Acme ==
    JDict([id |-> JInt(5), name |-> JStr("Acme"), email |-> JStr(""),
           active |-> JBool(FALSE),
           partner_id |-> JList(<<JInt(3), JStr("Bob")>>),
           tag_ids |-> JList(<<JInt(1), JInt(2), JInt(3), JInt(4), JInt(5), JInt(6)>>)])

Bob ==
    JDict([id |-> JInt(3), display_name |-> JStr("Bob"), email |-> JStr("bob@acme.test"),
           tag_ids |-> JList(<<JInt(4), JInt(9)>>)])

Duo ==
    JDict([id |-> JInt(8), name |-> JStr("Duo"), email |-> JNull,
           partner_id |-> JList(<<JInt(3), JStr("Bob")>>),
           tag_ids |-> JList(<<JInt(1), JInt(2), JInt(3)>>),
           child_ids |-> JList(<<>>)])

\* What a successful reply carries under data[SubKey(method)]
Payloads(method) ==
    CASE method = "list_models" ->
            {JList(<<>>),
             JList(<<JDict([model |-> JStr("res.partner"), name |-> JStr("Contact"),
                            can_read |-> JBool(TRUE), can_write |-> JBool(TRUE)])>>)}
      [] method = "get_fields" ->
            {JList(<<JDict([name |-> JStr("partner_id"), type |-> JStr("many2one"),
                            required |-> JBool(TRUE)]),
                     JDict([name |-> JStr("name"), type |-> JStr("char"),
                            label |-> JStr("Name")]),
                     JDict([name |-> JStr("email"), type |-> JStr("char"),
                            label |-> JStr("Email"), readonly |-> JBool(TRUE)])>>)}
      [] method \in {"search", "_request"} ->
            {JList(<<>>), JList(<<Acme, Bob>>), JList(<<Duo>>)}
      [] method = "read" -> {Acme, Bob, Duo}
      [] method = "count" -> {JInt(0), JInt(7)}
      [] method = "create" -> {JInt(42)}
      [] method = "execute" -> {JNull, JBool(TRUE)}
      [] OTHER -> {}

PayloadKey(method) ==
    IF method \in {"get_server_info", "write", "unlink"} THEN "info"
    ELSE IF method = "_request" THEN "records"
    ELSE SubKey(method)

\* The result objects of a reply: soft errors, and successes with and without
\* data and its sub-key
ResultObjs(method) ==
    {JDict([error |-> JBool(TRUE), message |-> JStr("nope")]),
     JDict([error |-> JBool(TRUE)]),
     JDict([success |-> JBool(TRUE)]),
     JDict([error |-> JBool(FALSE), data |-> JDict(NoKeys)])}
    \cup {JDict([data |-> JDict([k \in {PayloadKey(method)} |-> p])]) :
             p \in Payloads(method)}

\* The error objects of a reply
ErrorObjs ==
    {JStr("denied"),
     JDict([code |-> JInt(200), message |-> JStr("Odoo Server Error")]),
     JDict([code |-> JInt(200), data |-> JDict([debug |-> JStr("Traceback")])]),
     JDict([code |-> JInt(200), data |-> JDict([message |-> JStr("boom")])])}

\* The decoded reply documents: error alone, error beside a result, result
\* alone, and neither
Bodies(method) ==
    {JDict(NoKeys)}
    \cup {JDict([error |-> e]) : e \in ErrorObjs}
    \cup {JDict([error |-> e, result |-> r]) :
             e \in {JStr("denied"), JDict([code |-> JInt(200),
                                           data |-> JDict([message |-> JStr("boom")])])},
             r \in {JDict([error |-> JBool(TRUE), message |-> JStr("nope")]),
                    JDict([data |-> JDict(NoKeys)])}}
    \cup {JDict([result |-> r]) : r \in ResultObjs(method)}

\* Every way the exchange of one request can end
Exchanges(method) ==
    {RequestError("All connection attempts failed"), RequestError("timed out"),
     Response(500, "Internal Server Error", FALSE, JNull),
     Response(200, "<html>", FALSE, JNull)}
    \cup {Response(200, "json", TRUE, b) : b \in Bodies(method)}

\* Every way the GET of the health probe can end: any status, any document
HealthExchanges ==
    {RequestError("All connection attempts failed"), RequestError("timed out"),
     Response(200, "<html>", FALSE, JNull),
     Response(503, "Service Unavailable", FALSE, JNull)}
    \cup {Response(st, "json", TRUE, b) :
             st \in {200, 500},
             b \in {JDict([status |-> JStr("ok")]), JDict(NoKeys), JList(<<>>),
                    JStr("ok"), JNull,
                    JDict([error |-> JDict([code |-> JInt(200)])])}}

----------------------------------------------------------------------------
(* The operations *)

Init ==
    /\ settings \in Settings
    /\ client = NoClient
    /\ call = [pc |-> "idle", tool |-> "", args |-> NoKeys, method |-> "",
               params |-> NoKeys, got |-> Nil, request |-> Nil, exchanges |-> 0,
               reply |-> Nil, result |-> Nil, outcome |-> Nil]
    /\ mainpc = "running"
    /\ closepc = "idle"

\* What AsyncClient.post and AsyncClient.get raise on a client whose aclose()
\* has been entered: a RuntimeError, which is not an httpx.RequestError
ClosedClientMessage == "Cannot send a request, as the client has been closed."

ClosedClientError == Raise("RuntimeError", <<Lit(ClosedClientMessage)>>)

\* A handler from its entry to the await of the exchange: get_client(), the
\* client method's call of _request(endpoint, **params), the post. On a closed
\* client the post raises at once and the handler runs to its end
Begin(tool, a, method, endpoint, params) ==
    /\ mainpc = "running"
    /\ call.pc \in {"idle", "done"}
    /\ client' = get_client
    /\ call' = IF get_client.closed
               THEN LET r == ClosedClientError
                        res == IF method = "_request" THEN r ELSE MethodOutcome(method, r)
                    IN  [pc |-> "done", tool |-> tool, args |-> a, method |-> method,
                         params |-> params, got |-> get_client, request |-> Nil,
                         exchanges |-> 0, reply |-> Nil, result |-> res,
                         outcome |-> ToolOutcome(tool, a, res)]
               ELSE [pc |-> "awaiting", tool |-> tool, args |-> a, method |-> method,
                     params |-> params, got |-> get_client,
                     request |-> BuildRequest(get_client, endpoint, params),
                     exchanges |-> 1, reply |-> Nil, result |-> Nil, outcome |-> Nil]
    /\ UNCHANGED <<settings, mainpc, closepc>>

\* A handler that calls client.<method>(**margs)
BeginMethod(tool, a, method, margs) ==
    Begin(tool, a, method, Endpoint(method), MethodParams(method, margs))

resource_models == BeginMethod("resource_models", NoKeys, "list_models", NoKeys)

resource_model_fields ==
    BeginMethod("resource_model_fields", [model |-> ModelArg], "get_fields",
                [model |-> ModelArg])

\* int(record_id) is evaluated after get_client() and before client.read
resource_record ==
    \E rid \in RecordIdTexts :
        LET a == [model |-> ModelArg, record_id |-> JStr(rid)]
        IN  IF IsIntText(rid)
            THEN BeginMethod("resource_record", a, "read",
                             [model |-> ModelArg, record_id |-> JInt(IntOf(rid)),
                              fields |-> JNull])
            ELSE /\ mainpc = "running"
                 /\ call.pc \in {"idle", "done"}
                 /\ client' = get_client
                 /\ call' = [pc |-> "done", tool |-> "resource_record", args |-> a,
                             method |-> "", params |-> NoKeys, got |-> get_client,
                             request |-> Nil, exchanges |-> 0, reply |-> Nil, result |-> Nil,
                             outcome |-> Raise("ValueError",
                                               <<Lit("invalid literal for int()")>>)]
                 /\ UNCHANGED <<settings, mainpc, closepc>>

resource_count ==
    BeginMethod("resource_count", [model |-> ModelArg], "count",
                [model |-> ModelArg, domain |-> JList(<<>>)])

\* The same with the caller's limit passed through
ClampLimitNone(limit) == limit

\* search_records, line 96: min(limit, settings.max_records)
ClampLimit(limit) == Min(limit, settings.max_records)

search_records ==
    \E limit \in Limits, domain \in Domains :
        LET a == [model |-> ModelArg, domain |-> domain, fields |-> JNull,
                  limit |-> JInt(limit), offset |-> JInt(0), order |-> JNull]
        IN  BeginMethod("search_records", a, "search",
                        [a EXCEPT !.limit = JInt(ClampLimit(limit))])

get_record ==
    LET a == [model |-> ModelArg, record_id |-> JInt(5), fields |-> JNull]
    IN  BeginMethod("get_record", a, "read", a)

count_records ==
    \E domain \in Domains :
        LET a == [model |-> ModelArg, domain |-> domain]
        IN  BeginMethod("count_records", a, "count", a)

list_models == BeginMethod("list_models", NoKeys, "list_models", NoKeys)

get_model_fields ==
    \E field_types \in FieldTypeArgs :
        BeginMethod("get_model_fields",
                    [model |-> ModelArg, field_types |-> field_types],
                    "get_fields", [model |-> ModelArg])

create_record ==
    LET a == [model |-> ModelArg, values |-> ValuesArg]
    IN  BeginMethod("create_record", a, "create", a)

update_record ==
    LET a == [model |-> ModelArg, record_id |-> JInt(5), values |-> ValuesArg]
    IN  BeginMethod("update_record", a, "write", a)

delete_record ==
    LET a == [model |-> ModelArg, record_id |-> JInt(5)]
    IN  BeginMethod("delete_record", a, "unlink", a)

execute_method ==
    LET a == [model |-> ModelArg, method |-> JStr("action_confirm"),
              record_ids |-> JList(<<JInt(5)>>), args |-> JNull, kwargs |-> JNull]
    IN  BeginMethod("execute_method", a, "execute", a)

get_record_name ==
    LET a == [model |-> ModelArg, record_id |-> JInt(5)]
    IN  BeginMethod("get_record_name", a, "read",
                    [model |-> ModelArg, record_id |-> JInt(5),
                     fields |-> JList(<<JStr("display_name")>>)])

\* client.search(model, domain, fields, limit=1): offset and order are the defaults
search_and_read_one ==
    \E domain \in Domains \ {JNull} :
        LET a == [model |-> ModelArg, domain |-> domain, fields |-> JNull]
        IN  BeginMethod("search_and_read_one", a, "search",
                        [model |-> ModelArg, domain |-> domain, fields |-> JNull,
                         limit |-> JInt(1), offset |-> JInt(0), order |-> JNull])

\* OdooClient.get_server_info, called on the shared client
get_server_info == BeginMethod("get_server_info", NoKeys, "get_server_info", NoKeys)

\* OdooClient.health_check, called on the shared client, up to the await of the
\* GET: no params, no auth
health_check ==
    /\ mainpc = "running"
    /\ call.pc \in {"idle", "done"}
    /\ client' = get_client
    /\ call' = IF get_client.closed
               THEN [pc |-> "done", tool |-> "health_check", args |-> NoKeys,
                     method |-> "health_check", params |-> NoKeys, got |-> get_client,
                     request |-> Nil, exchanges |-> 0, reply |-> Nil,
                     result |-> Return(HealthError(ClosedClientMessage)),
                     outcome |-> Return(HealthError(ClosedClientMessage))]
               ELSE [pc |-> "awaiting", tool |-> "health_check", args |-> NoKeys,
                     method |-> "health_check", params |-> NoKeys, got |-> get_client,
                     request |-> [endpoint |-> "health", timeout |-> get_client.timeout,
                                  payload |-> Nil],
                     exchanges |-> 1, reply |-> Nil, result |-> Nil, outcome |-> Nil]
    /\ UNCHANGED <<settings, mainpc, closepc>>

\* OdooClient.health_check from the end of the GET to its return
health_check_done ==
    /\ mainpc = "running"
    /\ call.pc = "awaiting"
    /\ call.method = "health_check"
    /\ \E x \in HealthExchanges :
          call' = [call EXCEPT !.pc = "done", !.reply = x,
                               !.result = HealthOutcome(x),
                               !.outcome = HealthOutcome(x)]
    /\ UNCHANGED <<settings, client, mainpc, closepc>>

\* OdooClient._request called with keyword arguments of the caller's choice
request ==
    \E params \in ForgedParams :
        Begin("_request", params, "_request", "search", params)

\* The same with a failed exchange tried once more
ResendOnFailure(r, n) == r.kind = "raise" /\ n < 2

\* _request, lines 50-72: whether the post is made again after an exchange that
\* ended as r, the n-th of the call. The try block is not in a loop and each
\* except clause raises
Resend(r, n) == FALSE

\* The exchange ends: _request, the client method and the handler run to the
\* handler's return
Resume ==
    /\ mainpc = "running"
    /\ call.pc = "awaiting"
    /\ call.method # "health_check"
    /\ \E x \in Exchanges(call.method) :
          LET r == RequestOutcome(x)
              res == IF call.method = "_request" THEN r
                     ELSE MethodOutcome(call.method, r)
          IN  IF Resend(r, call.exchanges)
              THEN call' = [call EXCEPT !.reply = x, !.exchanges = @ + 1]
              ELSE call' = [call EXCEPT !.pc = "done", !.reply = x, !.result = res,
                                        !.outcome = ToolOutcome(call.tool, call.args, res)]
    /\ UNCHANGED <<settings, client, mainpc, closepc>>

\* main: mcp.run returns (the transport closed) or raises; main does nothing after it
Shutdown ==
    /\ mainpc = "running"
    /\ mainpc' \in {"returned", "raised"}
    /\ UNCHANGED <<settings, client, call, closepc>>

Next ==
    \/ resource_models
    \/ resource_model_fields
    \/ resource_record
    \/ resource_count
    \/ search_records
    \/ get_record
    \/ count_records
    \/ list_models
    \/ get_model_fields
    \/ create_record
    \/ update_record
    \/ delete_record
    \/ execute_method
    \/ get_record_name
    \/ search_and_read_one
    \/ get_server_info
    \/ request
    \/ health_check
    \/ health_check_done
    \/ Resume
    \/ Shutdown

Spec == Init /\ [][Next]_vars

\* close_client up to the suspension of "await _client.close()": the global is
\* not None, and aclose() has marked the httpx client closed before it awaits
\* the closing of the pool. With the global None the call changes nothing
close_client ==
    /\ closepc = "idle"
    /\ client # NoClient
    /\ client' = [client EXCEPT !.closed = TRUE]
    /\ closepc' = "closing"
    /\ UNCHANGED <<settings, call, mainpc>>

\* close_client from the end of the await: _client = None
close_client_done ==
    /\ closepc = "closing"
    /\ client' = NoClient
    /\ closepc' = "idle"
    /\ UNCHANGED <<settings, call, mainpc>>

\* The bridge with a caller of close_client beside the operations
NextClose ==
    \/ Next
    \/ close_client
    \/ close_client_done

SpecClose == Init /\ [][NextClose]_vars

----------------------------------------------------------------------------
(* The claims *)

Operations ==
    {"list_models", "get_fields", "search", "read", "count", "create", "write",
     "unlink", "execute"}

Handlers ==
    {"resource_models", "resource_model_fields", "resource_record", "resource_count",
     "search_records", "get_record", "count_records", "list_models",
     "get_model_fields", "create_record", "update_record", "delete_record",
     "execute_method", "get_record_name", "search_and_read_one"}

AuthKeys == {"api_key", "user", "password"}

\* A request has left the bridge for the operation being served
Sent == call.request # Nil

SentParams == call.request.payload.params

\* The operation has returned and its post gave a 2xx reply that decoded
Decoded ==
    /\ call.pc = "done"
    /\ call.method # "health_check"
    /\ call.reply # Nil
    /\ call.reply.kind = "response"
    /\ ~IsErrorStatus(call.reply.status)
    /\ call.reply.decodes

Doc == call.reply.json.m

\* The underlying client call of the operation failed
CallFailed == call.pc = "done" /\ call.result # Nil /\ call.result.kind = "raise"

Contains(text, sub) ==
    \E i \in 1..(Len(text) - Len(sub) + 1) : SubSeq(text, i, i + Len(sub) - 1) = sub

NonEmpty(v) == v.t = "str" /\ v.s # ""

\* The auth fields the profile calls for
ExpectedAuth ==
    IF NonEmpty(settings.api_key) THEN [api_key |-> settings.api_key]
    ELSE IF NonEmpty(settings.user) /\ NonEmpty(settings.password)
         THEN [user |-> settings.user, password |-> settings.password]
         ELSE NoKeys

\* C1: an operation whose reply document carries neither a result nor an error
\* key ends in an error, never in a successful value.
C1_MalformedReplyIsError ==
    (/\ Decoded
     /\ call.method \in Operations
     /\ "result" \notin DOMAIN Doc
     /\ "error" \notin DOMAIN Doc)
    => call.result.kind = "raise"

\* C2: when the underlying call of a tool or resource fails, the handler returns
\* a string that carries the underlying message and the target model when
\* there is one; no exception leaves the handler.
C2_FailureIsDiagnostic ==
    (CallFailed /\ call.tool \in Handlers)
    => /\ call.outcome.kind = "return"
       /\ Contains(call.outcome.value, call.result.msg)
       /\ "model" \in DOMAIN call.args
          => Contains(call.outcome.value, <<Lit(call.args.model.s)>>)

\* C3: for every method of the client, get_server_info included, a reply whose
\* result is a mapping with a true error flag ends in an OdooError whose message
\* is result.message, or "Unknown error" when result has no message.
C3_SoftErrorIsError ==
    (/\ Decoded
     /\ call.method \in Operations \cup {"get_server_info"}
     /\ "error" \notin DOMAIN Doc
     /\ "result" \in DOMAIN Doc
     /\ Doc["result"].t = "dict"
     /\ Get(Doc["result"].m, "error", JNull) = JBool(TRUE))
    => call.result =
          Raise("OdooError", PyStr(Get(Doc["result"].m, "message", JStr("Unknown error"))))

HasDataMessage(e) ==
    /\ e.t = "dict"
    /\ "data" \in DOMAIN e.m
    /\ e.m["data"].t = "dict"
    /\ "message" \in DOMAIN e.m["data"].m

\* C4: a reply with a top-level error key ends in an OdooError whatever its
\* result holds; the text is "Odoo error: " followed by error.data.message when
\* that is present and by the string form of the whole error object otherwise.
C4_TopLevelErrorWins ==
    (Decoded /\ "error" \in DOMAIN Doc)
    => call.result =
          Raise("OdooError",
                <<Lit("Odoo error: ")>>
                \o (IF HasDataMessage(Doc["error"])
                    THEN PyStr(Doc["error"].m["data"].m["message"])
                    ELSE PyStr(Doc["error"])))

C4_Witness ==
    /\ Decoded
    /\ call.method \in Operations
    /\ "error" \in DOMAIN Doc
    /\ "result" \in DOMAIN Doc
    /\ ~SoftError(Doc["result"])
    /\ HasDataMessage(Doc["error"])
    /\ call.result.kind = "raise"

\* C5: every operation that starts sends its request, and the auth fields in
\* the params of the request are exactly api_key when the profile's api_key is
\* non-empty, exactly user and password when it is empty and both of them are
\* non-empty, and none otherwise.
C5_AuthFieldsExact ==
    /\ call.pc = "awaiting" => Sent
    /\ (Sent /\ call.tool # "_request" /\ call.request.payload # Nil)
       => [k \in DOMAIN SentParams \cap AuthKeys |-> SentParams[k]] = ExpectedAuth

C5_Witness ==
    /\ Sent
    /\ call.tool \in Handlers
    /\ NonEmpty(settings.api_key)
    /\ NonEmpty(settings.user)
    /\ NonEmpty(settings.password)
    /\ DOMAIN SentParams \cap AuthKeys = {"api_key"}

\* C6: an auth field the profile injects has the profile's value in the params
\* of the request, also when the caller passed an argument of the same name.
C6_AuthWinsOverCaller ==
    Sent => \A k \in DOMAIN call.params \cap DOMAIN ExpectedAuth :
                SentParams[k] = ExpectedAuth[k]

C6_Witness ==
    /\ Sent
    /\ NonEmpty(settings.api_key)
    /\ "api_key" \in DOMAIN call.params
    /\ call.params["api_key"] # settings.api_key
    /\ SentParams["api_key"] = settings.api_key

C8_ClientReleasedOnExit ==
    mainpc \in {"returned", "raised"} => (client = NoClient \/ client.closed)

\* C9: every exchange is made under the timeout of the settings.
C9_TimeoutIsConfigured == Sent => call.request.timeout = settings.timeout

\* C10: for search, read, count and create, a successful reply without data, or
\* whose data lacks the method's key, gives the empty list, the empty record, 0
\* and an empty id, and the handler returns.
C10_MissingSubKeyGivesDefault ==
    (/\ Decoded
     /\ call.method \in {"search", "read", "count", "create"}
     /\ "error" \notin DOMAIN Doc
     /\ "result" \in DOMAIN Doc
     /\ ~SoftError(Doc["result"])
     /\ \/ "data" \notin DOMAIN Doc["result"].m
        \/ SubKey(call.method) \notin DOMAIN Doc["result"].m["data"].m)
    => /\ call.result.kind = "return"
       /\ call.outcome.kind = "return"
       /\ call.method = "search" => call.result.value = JList(<<>>)
       /\ call.method = "read" => call.result.value = JDict(NoKeys)
       /\ call.method = "count" => call.result.value = JInt(0)
       /\ call.method = "create" => call.result.value \in {JNull, JInt(0)}

C10_Witness ==
    /\ Decoded
    /\ call.tool = "create_record"
    /\ "result" \in DOMAIN Doc
    /\ "data" \in DOMAIN Doc["result"].m
    /\ "id" \notin DOMAIN Doc["result"].m["data"].m
    /\ ~SoftError(Doc["result"])
    /\ call.outcome.kind = "return"


\* The records a returned handler has rendered: all of the list for
\* search_records, the first for search_and_read_one, the one read otherwise
Rendered ==
    IF ~(call.pc = "done" /\ call.result # Nil /\ call.result.kind = "return"
         /\ Truthy(call.result.value))
    THEN <<>>
    ELSE IF call.tool = "search_records" THEN call.result.value.l
    ELSE IF call.tool = "search_and_read_one" THEN <<call.result.value.l[1]>>
    ELSE IF call.tool \in {"resource_record", "get_record"} THEN <<call.result.value>>
    ELSE <<>>

\* The keys that head a record and are not printed as fields
HeadKeys ==
    IF call.tool = "search_records"
    THEN {"id", "display_name", "name", "__last_update"}
    ELSE {"id", "display_name", "__last_update"}

\* A two-element [id, label] value
IsIdLabel(v) ==
    /\ v.t = "list"
    /\ Len(v.l) = 2
    /\ v.l[1].t = "int"
    /\ v.l[2].t = "str"

\* The text the claim gives a list value: label (ID: id), or the count, a
\* preview of at most 5 items and an ellipsis past 5
ListRendering(v) ==
    IF IsIdLabel(v)
    THEN <<Lit(v.l[2].s), Lit(" (ID: "), Repr(v.l[1]), Lit(")")>>
    ELSE <<Repr(JInt(Len(v.l))), Lit(" items: "),
           Repr(JList(IF Len(v.l) > 5 THEN SubSeq(v.l, 1, 5) ELSE v.l))>>
         \o (IF Len(v.l) > 5 THEN <<Lit("...")>> ELSE <<>>)

\* Some line of the returned text is the line of field k
HasLineFor(k) == Contains(call.outcome.value, <<Lit("- **"), Lit(k), Lit("**: ")>>)

\* C11: in the text of a rendered record, alone or in a list, a two-element
\* [id, label] value is printed "label (ID: id)" and every other non-empty list
\* with its count, a preview of at most 5 items and an ellipsis exactly when it
\* has more than 5.
C11_ListsRendered ==
    \A i \in 1..Len(Rendered) :
        \A k \in DOMAIN Rendered[i].m \ HeadKeys :
            (Rendered[i].m[k].t = "list" /\ Rendered[i].m[k].l # <<>>)
            => Contains(call.outcome.value,
                        <<Lit("- **"), Lit(k), Lit("**: ")>>
                        \o ListRendering(Rendered[i].m[k]))

\* A value that is empty, false or null
IsEmptyValue(v) ==
    \/ v.t = "null"
    \/ v.t = "bool" /\ ~v.b
    \/ v.t = "str" /\ v.s = ""
    \/ v.t = "list" /\ v.l = <<>>

\* C12: the text of a rendered record, alone or in a list, has no line for a
\* field whose value is null, false, the empty string or the empty list.
C12_EmptyFieldsOmitted ==
    \A i \in 1..Len(Rendered) :
        \A k \in DOMAIN Rendered[i].m \ HeadKeys :
            (\A j \in 1..Len(Rendered) :
                k \in DOMAIN Rendered[j].m => IsEmptyValue(Rendered[j].m[k]))
            => ~HasLineFor(k)


\* C13: the health probe always returns: the error payload with the exception's
\* message when the GET fails or its reply does not decode, and the decoded
\* reply itself otherwise, whatever its status and shape.
C13_HealthNeverRaises ==
    (call.pc = "done" /\ call.tool = "health_check")
    => /\ call.outcome.kind = "return"
       /\ call.reply.kind = "request_error"
          => call.outcome.value =
                [t |-> "dict",
                 m |-> [status |-> JStr("error"), message |-> JStr(call.reply.detail)]]
       /\ (call.reply.kind = "response" /\ ~call.reply.decodes)
          => /\ call.outcome.value.t = "dict"
             /\ DOMAIN call.outcome.value.m = {"status", "message"}
             /\ call.outcome.value.m["status"] = JStr("error")
       /\ (call.reply.kind = "response" /\ call.reply.decodes)
          => call.outcome.value = call.reply.json

C13_Witness ==
    /\ call.pc = "done"
    /\ call.tool = "health_check"
    /\ call.reply.kind = "response"
    /\ ~call.reply.decodes
    /\ call.outcome.kind = "return"
    /\ call.outcome.value.m["status"] = JStr("error")


\* The exchange of the operation ended in a transport failure, an HTTP error
\* status or an error reply
ExchangeFailed ==
    /\ call.reply # Nil
    /\ call.method \in Operations \cup {"get_server_info", "_request"}
    /\ \/ call.reply.kind = "request_error"
       \/ IsErrorStatus(call.reply.status)
       \/ call.reply.decodes /\ "error" \in DOMAIN Doc
       \/ /\ call.reply.decodes
          /\ call.method \in Operations
          /\ "result" \in DOMAIN Doc
          /\ SoftError(Doc["result"])

\* C14: an invocation posts at most once, and an exchange that ends in a
\* transport failure, an HTTP error status or an application error ends the
\* invocation: nothing is sent again and the failure is raised to the caller.
C14_OneExchangeNoRetry ==
    /\ call.exchanges <= 1
    /\ ExchangeFailed
       => /\ call.pc = "done"
          /\ call.exchanges = 1
          /\ call.result.kind = "raise"
          /\ call.result.exc = "OdooError"

C14_Witness ==
    /\ call.pc = "done"
    /\ call.method = "search"
    /\ call.reply.kind = "request_error"
    /\ call.exchanges = 1
    /\ call.result.kind = "raise"


\* C15: whatever the interleaving of the operations with a call of
\* close_client, the client get_client hands to an operation is not one whose
\* close has started or completed.
C15_GetClientNeverClosed == call.got # Nil => ~call.got.closed

====
